---- MODULE Spec2Model ----
(***************************************************************************)
(* Model of src/app.py, the Streamlit leaderboard script.                  *)
(*                                                                         *)
(* One render pass is one top-to-bottom run of the script: load the raw    *)
(* table (uploaded file, or the memoized default file), preprocess_scores  *)
(* (column validation, numeric coercion, baseline sort and Rank), the      *)
(* widgets, the zero-team halt, the slider, the sorted and truncated view  *)
(* df_sorted with its recomputed Rank, and the top-3 spotlight cards.      *)
(*                                                                         *)
(* A cell of a numeric column is a record [t, v]:                          *)
(*   t = "num"     a number v as stored in the spreadsheet                 *)
(*   t = "numstr"  a text cell holding the decimal numeral of v            *)
(*   t = "text"    a text cell that is no numeral ("N/A")                  *)
(*   t = "nan"     the float not-a-number produced by errors="coerce"      *)
(* Team and Badges cells are strings.  A row is a function from column     *)
(* names to cells; a table is a sequence of rows.                          *)
(*                                                                         *)
(* src/app.py as given does not compile (line 181 is indented under a      *)
(* statement at column 0); the model follows its statements in the order   *)
(* they are written.                                                       *)
(***************************************************************************)
EXTENDS Integers, Sequences, FiniteSets, TLC

VARIABLES
    file,            \* default scores.xlsx on disk: {} (absent) or {raw table}
    uploaded_file,   \* the file uploader's value: {} (None) or {raw table}
    cache,           \* st.cache_data memo of load_scores_from_default_file(): {} or {df}
    event,           \* the interaction that produced this state
    status,          \* how the last pass ended
    missing,         \* the columns named by the missing-columns error
    raw_after,       \* the raw table handed to preprocess_scores, as it is after the call
    using_uploaded,  \* line 142 / 146
    df,              \* the normalized table of the last pass
    num_teams,       \* line 164
    min_n,           \* line 171
    sort_option,     \* line 158
    ascending,       \* line 163
    show_top_n,      \* line 174
    df_full,         \* df.sort_values(by=sort_option, ascending=ascending), before head()
    df_sorted,       \* line 192-193
    cards,           \* the spotlight cards of lines 219-243
    file_seen,       \* history: the default file's content when the last pass ran
    cache_src,       \* history: the file content the memo was loaded from ({}: no memo)
    was_stale,       \* history: the last pass used the default source and found a
                     \* memo loaded from other content than the file then held
    refresh_state    \* history: "cleared" after a refresh until the default source is
                     \* next used, "first" right after that pass, "none" otherwise

vars == <<file, uploaded_file, cache, event, status, missing, raw_after, using_uploaded,
          df, num_teams, min_n, sort_option, ascending, show_top_n, df_full, df_sorted,
          cards, file_seen, cache_src, was_stale, refresh_state>>

\* ------------------------------------------------------------------ bounds

\* Largest number of rows of a generated raw table.
MaxRows == 4

\* ------------------------------------------------------------------ helpers

Range(s) == {s[i] : i \in DOMAIN s}

Min(a, b) == IF a <= b THEN a ELSE b

Max(a, b) == IF a >= b THEN a ELSE b

\* The one element of a set holding exactly one element.
The(S) == CHOOSE x \in S : TRUE

\* ------------------------------------------------------------------ data

REQUIRED_COLUMNS == <<"Team", "Reputation", "Orders", "Accuracy_%", "Budget_Left", "Badges">>

NumericColumns == <<"Reputation", "Orders", "Accuracy_%", "Budget_Left">>

SortOptions == {"Reputation", "Orders", "Accuracy_%", "Budget_Left"}

Num(v) == [t |-> "num", v |-> v]

NumStr(v) == [t |-> "numstr", v |-> v]

Text == [t |-> "text", v |-> 0]

NaN == [t |-> "nan", v |-> 0]

isna(c) == c.t = "nan"

\* ------------------------------------------------------------------ raw tables

\* The rows a generated spreadsheet is made of, as <<Reputation cell, cell of the
\* other numeric columns>>.  Every cell kind occurs in both positions; in each
\* position there are kinds that tie (a number and the numeral text of the same
\* number) and kinds holding text that is no numeral.
RowKinds ==
    {<<Num(50), NumStr(80)>>, <<NumStr(80), Num(50)>>, <<Num(80), Text>>,
     <<Text, Num(80)>>, <<Text, NumStr(50)>>}

ValidColumns == Range(REQUIRED_COLUMNS)

\* The required columns and one further column the script does not know.
AllColumns == ValidColumns \cup {"Notes"}

TeamName(i) == "Team" \o ToString(i)

BadgesOf(i) == "Badge" \o ToString(i)

\* Row i of a generated spreadsheet with columns cols: Reputation holds rep, the
\* three other numeric columns hold other, Team and Badges name the row.
RawRow(i, cols, rep, other) ==
    [c \in cols |->
        CASE c = "Team" -> TeamName(i)
          [] c = "Badges" -> BadgesOf(i)
          [] c = "Notes" -> "note"
          [] c = "Reputation" -> rep
          [] OTHER -> other]

\* The spreadsheet with exactly the required columns whose rows are of kinds ks.
Table(ks) ==
    [columns |-> ValidColumns,
     rows |-> [i \in DOMAIN ks |-> RawRow(i, ValidColumns, ks[i][1], ks[i][2])]]

\* Every sequence of n different elements of S.
RECURSIVE Arrangements(_, _)
Arrangements(S, n) ==
    IF n = 0 THEN {<<>>}
    ELSE UNION {{<<x>> \o a : a \in Arrangements(S \ {x}, n - 1)} : x \in S}

\* Every spreadsheet of up to MaxRows rows of different kinds that has exactly
\* the required columns.  (Rows of different kinds: at most two rows tie on a
\* column, and a tie of k rows has k! orders.)
RichTables == UNION {{Table(ks) : ks \in Arrangements(RowKinds, n)} : n \in 0..MaxRows}

\* One-row spreadsheets over every set of columns.
ColumnTables ==
    {[columns |-> cs, rows |-> <<RawRow(1, cs, Num(50), NumStr(80))>>] :
        cs \in SUBSET AllColumns}

RawTables == RichTables \cup ColumnTables

\* The contents the default scores.xlsx takes in the session specification: two
\* rankings of the same teams, a three-team file with a tie and a missing cell,
\* a file with no rows, and a file without its Badges column.
FileTables ==
    {Table(<<<<Num(50), Num(50)>>, <<NumStr(80), Text>>>>),
     Table(<<<<NumStr(80), Text>>, <<Num(50), Num(50)>>>>),
     Table(<<<<Num(50), NumStr(80)>>, <<Num(50), Num(50)>>, <<Text, Num(50)>>>>),
     Table(<<>>),
     [columns |-> ValidColumns \ {"Badges"},
      rows |-> <<RawRow(1, ValidColumns \ {"Badges"}, Num(50), NumStr(80))>>]}

\* The spreadsheets a user uploads in the session specification: a valid one
\* and one without its Team and Orders columns.
UploadTables ==
    {Table(<<<<Text, NumStr(80)>>, <<Num(50), NumStr(80)>>>>),
     [columns |-> ValidColumns \ {"Team", "Orders"},
      rows |-> <<RawRow(1, ValidColumns \ {"Team", "Orders"}, Num(50), NumStr(80))>>]}

\* ------------------------------------------------------------------ preprocess_scores

MissingNamesExpected(raw) ==
    IF \E c \in Range(REQUIRED_COLUMNS) : c \notin raw.columns THEN REQUIRED_COLUMNS ELSE <<>>

\* line 105: the required columns the table lacks, in REQUIRED_COLUMNS order
Missing(raw) == SelectSeq(REQUIRED_COLUMNS, LAMBDA c : c \notin raw.columns)

ToNumericZero(c) == IF c.t \in {"num", "numstr"} THEN Num(c.v) ELSE Num(0)

\* line 116: pd.to_numeric(..., errors="coerce") on one cell
ToNumeric(c) == IF c.t \in {"num", "numstr"} THEN Num(c.v) ELSE NaN

\* lines 115-116 on every row
CoerceColumns(rows) ==
    [i \in DOMAIN rows |->
        [c \in DOMAIN rows[i] |->
            IF c \in Range(NumericColumns) THEN ToNumeric(rows[i][c]) ELSE rows[i][c]]]

\* The elements of a set of integers in ascending order.
RECURSIVE Ascending(_)
Ascending(S) ==
    IF S = {} THEN <<>>
    ELSE LET m == CHOOSE x \in S : \A y \in S : x <= y
         IN <<m>> \o Ascending(S \ {m})

\* Every arrangement of the positions S of `rows` in which the `by` values run
\* in the direction asked; positions of equal value come in any order.
RECURSIVE Sorted(_, _, _, _)
Sorted(S, rows, by, asc) ==
    IF S = {} THEN {<<>>}
    ELSE UNION {{<<x>> \o p : p \in Sorted(S \ {x}, rows, by, asc)} :
                  x \in {x \in S : \A y \in S :
                            IF asc THEN rows[x][by].v <= rows[y][by].v
                                   ELSE rows[x][by].v >= rows[y][by].v}}

\* The positions of the rows whose `by` cell is present, in every order the
\* default kind="quicksort" may give: it is not a stable sort.
ArgSort(rows, by, asc) == Sorted({i \in DOMAIN rows : ~isna(rows[i][by])}, rows, by, asc)

NaFollowsDirection(present, nans, asc) == IF asc THEN present \o nans ELSE nans \o present

\* na_position="last", the default of sort_values
NaPosition(present, nans, asc) == present \o nans

\* DataFrame.sort_values(by=by, ascending=asc): the present rows sorted, then the
\* rows whose key is missing, in their original order.
sort_values(rows, by, asc) ==
    {[i \in 1..Len(rows) |->
        rows[NaPosition(p, Ascending({k \in DOMAIN rows : isna(rows[k][by])}), asc)[i]]] :
            p \in ArgSort(rows, by, asc)}

KeepRank(rows) ==
    [i \in DOMAIN rows |->
        [c \in DOMAIN rows[i] \cup {"Rank"} |->
            IF c # "Rank" THEN rows[i][c]
            ELSE IF "Rank" \in DOMAIN rows[i] THEN rows[i]["Rank"] ELSE i]]

\* reset_index(drop=True); df["Rank"] = df.index + 1  (lines 118-119, 192-193)
SetRank(rows) ==
    [i \in DOMAIN rows |->
        [c \in DOMAIN rows[i] \cup {"Rank"} |-> IF c = "Rank" THEN i ELSE rows[i][c]]]

CoercedInPlace(raw, rows) == [raw EXCEPT !.rows = rows]

\* line 113: df = df.copy() makes the column assignments of lines 116-119 act on
\* a copy, so the caller's table is after the call what it was before.
CallerTable(raw, rows) == raw

\* lines 113-120 on a table that has every required column: each result the call
\* may return, with the caller's raw table as the call leaves it.
preprocess_scores(raw) ==
    {[df |-> SetRank(s), raw |-> CallerTable(raw, CoerceColumns(raw.rows))] :
        s \in sort_values(CoerceColumns(raw.rows), "Reputation", FALSE)}

\* ------------------------------------------------------------------ view and spotlight

AlwaysThree(n) == 3

\* line 171
MinN(n) == IF n < 3 THEN 1 ELSE 3

\* st.slider(label, min_value, max_value, value): the values the user can pick.
\* The widget widens its range to hold min, max and the default value.
Slider(lo, hi, value) == Min(value, Min(lo, hi)) .. Max(value, Max(lo, hi))

LastRows(s, n) == IF n >= Len(s) THEN s ELSE SubSeq(s, Len(s) - n + 1, Len(s))

\* DataFrame.head(n)
Head_(s, n) == SubSeq(s, 1, Min(n, Len(s)))

\* The column holds a not-a-number, so its dtype is float64 and not int64.
IsFloatColumn(tbl, col) == \E i \in DOMAIN tbl : isna(tbl[i][col])

\* f"{x}" of a numpy number
FormatNumber(c, float) ==
    IF isna(c) THEN "nan"
    ELSE IF float THEN ToString(c.v) \o ".0" ELSE ToString(c.v)

\* f"{int(x) if not pd.isna(x) else '-'}"  (lines 235, 237)
FormatIntOrDash(c) == IF ~isna(c) THEN ToString(c.v) ELSE "-"

crowns == <<"1st", "2nd", "3rd">>

CardFields == {"title", "crown", "Team", "Reputation", "Orders", "Accuracy_%", "Budget_Left", "Badges"}

\* lines 223-243: the values interpolated into card i for `row` of the view; tbl
\* is the normalized table, whose column dtypes the view inherits.
Card(i, row, tbl) ==
    [f \in CardFields |->
        CASE f = "title" -> "Rank " \o ToString(row["Rank"])
          [] f = "crown" -> crowns[i]
          [] f = "Reputation" -> FormatNumber(row[f], IsFloatColumn(tbl, f))
          [] f = "Accuracy_%" -> FormatNumber(row[f], IsFloatColumn(tbl, f))
          [] f = "Orders" -> FormatIntOrDash(row[f])
          [] f = "Budget_Left" -> FormatIntOrDash(row[f])
          [] OTHER -> row[f]]

\* lines 213-243
Spotlight(view, tbl) == [i \in 1..Len(Head_(view, 3)) |-> Card(i, view[i], tbl)]

\* ------------------------------------------------------------------ one render pass

KeepCache(c) == c

\* line 184: st.cache_data.clear()
ClearCache(c) == {}

NeverCached(c) == {}

\* @st.cache_data on load_scores_from_default_file(): the call has no argument,
\* so the memo holds at most one entry, found whatever the file now contains.
CacheLookup(c) == c

\* The pass halts (st.stop()) before the widgets: nothing below line 153 runs.
Stop(st, miss, ra) ==
    /\ status' = st
    /\ missing' = miss
    /\ raw_after' = ra
    /\ df' = <<>>
    /\ num_teams' = 0
    /\ min_n' = 0
    /\ sort_option' = "Reputation"
    /\ ascending' = FALSE
    /\ show_top_n' = 0
    /\ df_full' = <<>>
    /\ df_sorted' = <<>>
    /\ cards' = <<>>

\* Lines 155-243 on the normalized table d.  key, asc and topn are the widget
\* values the session holds.  The slider keeps topn only if the page it was set
\* on showed the same slider (same minimum, maximum and default); a slider with
\* other arguments is a new widget and starts at its default, len(df).
Continue(d, ra, key, asc, topn) ==
    /\ df' = d
    /\ raw_after' = ra
    /\ missing' = <<>>
    /\ sort_option' = key
    /\ ascending' = asc
    /\ num_teams' = Len(d)
    /\ IF Len(d) = 0
       THEN /\ status' = "no_teams"
            /\ min_n' = 0
            /\ show_top_n' = 0
            /\ df_full' = <<>>
            /\ df_sorted' = <<>>
            /\ cards' = <<>>
       ELSE /\ status' = "ok"
            /\ min_n' = MinN(Len(d))
            /\ show_top_n' = IF /\ status = "ok"
                                /\ num_teams = Len(d)
                                /\ topn \in Slider(MinN(Len(d)), Len(d), Len(d))
                             THEN topn
                             ELSE Len(d)
            /\ \E full \in sort_values(d, key, asc) :
                    /\ df_full' = full
                    /\ df_sorted' = SetRank(Head_(full, show_top_n'))
                    /\ cards' = Spotlight(SetRank(Head_(full, show_top_n')), d)

\* Lines 139-243 with uploader value up, default file f, memo c and the widget
\* values key, asc, topn.  stale: the memo the click or rerun found was loaded
\* from other content than f.
Pass(up, f, c, stale, rs, key, asc, topn) ==
    /\ file_seen' = f
    /\ IF up # {}
       THEN /\ using_uploaded' = TRUE
            /\ cache' = c
            /\ cache_src' = IF c = {} THEN {} ELSE cache_src
            /\ was_stale' = FALSE
            /\ refresh_state' = IF rs = "cleared" THEN "cleared" ELSE "none"
            /\ IF Missing(The(up)) # <<>>
               THEN Stop("missing_columns", Missing(The(up)), up)
               ELSE \E r \in preprocess_scores(The(up)) :
                        Continue(r.df, {r.raw}, key, asc, topn)
       ELSE /\ using_uploaded' = FALSE
            /\ was_stale' = stale
            /\ refresh_state' = IF rs = "cleared" THEN "first" ELSE "none"
            /\ IF CacheLookup(c) # {}
               THEN /\ cache' = c
                    /\ cache_src' = cache_src
                    /\ Continue(The(c), {}, key, asc, topn)
               ELSE IF f = {}
               THEN /\ cache' = c
                    /\ cache_src' = IF c = {} THEN {} ELSE cache_src
                    /\ Stop("load_failed", <<>>, {})
               ELSE IF Missing(The(f)) # <<>>
               THEN /\ cache' = c
                    /\ cache_src' = IF c = {} THEN {} ELSE cache_src
                    /\ Stop("missing_columns", Missing(The(f)), f)
               ELSE \E r \in preprocess_scores(The(f)) :
                        /\ cache' = {r.df}
                        /\ cache_src' = f
                        /\ Continue(r.df, {r.raw}, key, asc, topn)

\* The memo holds a table loaded from other content than scores.xlsx now holds.
Stale == cache # {} /\ cache_src # file

\* ------------------------------------------------------------------ actions

\* The script runs with the widget values the session holds (the first run of a
\* session, or a rerun that changes no widget).
Rerun ==
    /\ event' = "render"
    /\ UNCHANGED <<file, uploaded_file>>
    /\ Pass(uploaded_file, file, cache, Stale, refresh_state, sort_option, ascending, show_top_n)

\* Line 158: the user picks another sort key; the script reruns.
SelectSort(key) ==
    /\ status \in {"ok", "no_teams"}
    /\ key # sort_option
    /\ event' = "render"
    /\ UNCHANGED <<file, uploaded_file>>
    /\ Pass(uploaded_file, file, cache, Stale, refresh_state, key, ascending, show_top_n)

\* Line 163: the user flips the direction; the script reruns.
ToggleAscending ==
    /\ status \in {"ok", "no_teams"}
    /\ event' = "render"
    /\ UNCHANGED <<file, uploaded_file>>
    /\ Pass(uploaded_file, file, cache, Stale, refresh_state, sort_option, ~ascending, show_top_n)

\* Line 174: the user moves the slider; the script reruns.
SlideTopN(n) ==
    /\ status = "ok"
    /\ n \in Slider(min_n, num_teams, num_teams)
    /\ n # show_top_n
    /\ event' = "render"
    /\ UNCHANGED <<file, uploaded_file>>
    /\ Pass(uploaded_file, file, cache, Stale, refresh_state, sort_option, ascending, n)

\* Line 132: the user uploads a spreadsheet; the script reruns.
Upload(t) ==
    /\ uploaded_file # {t}
    /\ event' = "upload"
    /\ uploaded_file' = {t}
    /\ UNCHANGED file
    /\ Pass({t}, file, cache, Stale, refresh_state, sort_option, ascending, show_top_n)

\* Line 132: the user removes the uploaded spreadsheet; the script reruns.
RemoveUpload ==
    /\ uploaded_file # {}
    /\ event' = "remove_upload"
    /\ uploaded_file' = {}
    /\ UNCHANGED file
    /\ Pass({}, file, cache, Stale, refresh_state, sort_option, ascending, show_top_n)

\* scores.xlsx is rewritten on disk; the script does not run.
EditFile(t) ==
    /\ file # {t}
    /\ file' = {t}
    /\ event' = "edit"
    /\ UNCHANGED <<uploaded_file, cache, status, missing, raw_after, using_uploaded, df,
                   num_teams, min_n, sort_option, ascending, show_top_n, df_full,
                   df_sorted, cards, file_seen, cache_src, was_stale, refresh_state>>

\* scores.xlsx is removed from disk; the script does not run.
DeleteFile ==
    /\ file # {}
    /\ file' = {}
    /\ event' = "edit"
    /\ UNCHANGED <<uploaded_file, cache, status, missing, raw_after, using_uploaded, df,
                   num_teams, min_n, sort_option, ascending, show_top_n, df_full,
                   df_sorted, cards, file_seen, cache_src, was_stale, refresh_state>>

\* Lines 182-185: the button exists only on a page whose pass reached line 182.
\* The click's own pass loads as the page's pass did, clears the memo and asks
\* for a rerun, which is the pass whose results stay on the page.
Refresh ==
    /\ status = "ok"
    /\ event' = "refresh"
    /\ UNCHANGED <<file, uploaded_file>>
    /\ Pass(uploaded_file, file, ClearCache(cache), Stale, "cleared",
            sort_option, ascending, show_top_n)

\* ------------------------------------------------------------------ specifications

\* No pass has run yet.
Fresh ==
    /\ cache = {}
    /\ event = "start"
    /\ status = "init"
    /\ missing = <<>>
    /\ raw_after = {}
    /\ using_uploaded = FALSE
    /\ df = <<>>
    /\ num_teams = 0
    /\ min_n = 0
    /\ sort_option = "Reputation"
    /\ ascending = FALSE
    /\ show_top_n = 0
    /\ df_full = <<>>
    /\ df_sorted = <<>>
    /\ cards = <<>>
    /\ file_seen = {}
    /\ cache_src = {}
    /\ was_stale = FALSE
    /\ refresh_state = "none"

\* The pipeline on every generated spreadsheet: the spreadsheet is the default
\* scores.xlsx, nothing is uploaded, and the user works the widgets.
Init ==
    /\ file \in {{t} : t \in RawTables}
    /\ uploaded_file = {}
    /\ Fresh

Next ==
    \/ Rerun
    \/ \E key \in SortOptions : SelectSort(key)
    \/ ToggleAscending
    \/ \E n \in 1..(MaxRows + 1) : SlideTopN(n)

Spec == Init /\ [][Next]_vars

\* A session: the default file is edited on disk, spreadsheets are uploaded and
\* removed, the page is re-rendered and refreshed.
InitSession ==
    /\ file \in {{}} \cup {{t} : t \in FileTables}
    /\ uploaded_file = {}
    /\ Fresh

NextSession ==
    \/ Next
    \/ \E t \in UploadTables : Upload(t)
    \/ RemoveUpload
    \/ \E t \in FileTables : EditFile(t)
    \/ DeleteFile
    \/ Refresh

SpecSession == InitSession /\ [][NextSession]_vars

\* ------------------------------------------------------------------ claims

\* The raw table the last pass handed to preprocess_scores.
Raw == The(raw_after)

\* The row of `rows` that holds team `team`.
RowOf(rows, team) == CHOOSE k \in DOMAIN rows : rows[k]["Team"] = team

\* A raw cell that pd.to_numeric can read as a number.
Coercible(c) == c.t \in {"num", "numstr"}

\* The pass ended as one that read default-file content f ends: the outcome and
\* the normalized table are those of f.
DerivedFrom(f) ==
    IF f = {} THEN status = "load_failed"
    ELSE IF \E c \in ValidColumns : c \notin The(f).columns
    THEN /\ status = "missing_columns"
         /\ Range(missing) = {c \in ValidColumns : c \notin The(f).columns}
    ELSE /\ status \in {"ok", "no_teams"}
         /\ df \in {r.df : r \in preprocess_scores(The(f))}

\* C1: a raw table lacking required columns halts the pass with an error naming
\* exactly the absent required columns, each once, and no normalized table, view
\* or card is produced; a raw table holding all six raises no such error.
C1_MissingColumnsHalt ==
    raw_after # {} =>
        LET absent == {c \in ValidColumns : c \notin Raw.columns}
        IN IF absent # {}
           THEN /\ status = "missing_columns"
                /\ Range(missing) = absent
                /\ Len(missing) = Cardinality(absent)
                /\ df = <<>> /\ df_sorted = <<>> /\ cards = <<>>
           ELSE /\ status # "missing_columns"
                /\ missing = <<>>

\* C1 witness: a pass halted on a table that lacks two of the required columns
\* and holds a column the script does not know.
C1_Witness ==
    /\ status = "missing_columns"
    /\ Len(missing) = 2
    /\ "Notes" \in Raw.columns

\* C2: the baseline Rank is 1..N in descending-Reputation order, missing last,
\* and two rows of equal Reputation (or both missing) keep their input order.
C2_BaselineStable ==
    (raw_after # {} /\ status \in {"ok", "no_teams"}) =>
        /\ Len(df) = Len(Raw.rows)
        /\ \A i \in DOMAIN df : df[i]["Rank"] = i
        /\ \A i, j \in DOMAIN df : i < j =>
              LET a == df[i]["Reputation"]
                  b == df[j]["Reputation"]
              IN /\ ~(isna(a) /\ ~isna(b))
                 /\ (~isna(a) /\ ~isna(b)) => a.v >= b.v
                 /\ (a = b) => RowOf(Raw.rows, df[i]["Team"]) < RowOf(Raw.rows, df[j]["Team"])

\* C3: in the full sort the view is cut from, no row whose sort key is missing
\* precedes a row whose sort key is present, in either direction, and the rows
\* with a present key run in the direction asked.
C3_MissingLast ==
    status = "ok" =>
        /\ Len(df_full) = Len(df)
        /\ Range(df_full) = Range(df)
        /\ \A i, j \in DOMAIN df_full : i < j =>
              LET a == df_full[i][sort_option]
                  b == df_full[j][sort_option]
              IN /\ ~(isna(a) /\ ~isna(b))
                 /\ (~isna(a) /\ ~isna(b)) => IF ascending THEN a.v <= b.v ELSE a.v >= b.v

\* C3 witness: an ascending sort by Accuracy_% of a table with a missing and
\* two different present accuracies, the missing one not last in the input.
C3_Witness ==
    /\ status = "ok"
    /\ ascending
    /\ sort_option = "Accuracy_%"
    /\ \E i, j, k \in DOMAIN df :
          /\ i < j
          /\ isna(df[i]["Accuracy_%"])
          /\ ~isna(df[j]["Accuracy_%"]) /\ ~isna(df[k]["Accuracy_%"])
          /\ df[j]["Accuracy_%"].v < df[k]["Accuracy_%"].v

\* C4: the view holds min(topN, rowCount) rows and its i-th row is the i-th row
\* of the full sort (Rank aside, which the view recomputes).
C4_ViewIsPrefix ==
    status = "ok" =>
        /\ Len(df_full) = num_teams
        /\ Len(df_sorted) = Min(show_top_n, num_teams)
        /\ \A i \in DOMAIN df_sorted :
              /\ DOMAIN df_sorted[i] = DOMAIN df_full[i]
              /\ \A c \in DOMAIN df_full[i] \ {"Rank"} : df_sorted[i][c] = df_full[i][c]

\* C4 witness: a four-row table cut to its top three.
C4_Witness ==
    /\ status = "ok"
    /\ num_teams = 4
    /\ show_top_n = 3
    /\ Len(df_sorted) = 3

\* C5: the row at view position i has Rank i, whatever its baseline Rank, and
\* the spotlight card at position i is titled with that Rank.
C5_RankIsPosition ==
    status = "ok" =>
        /\ \A i \in DOMAIN df_sorted : df_sorted[i]["Rank"] = i
        /\ \A i \in DOMAIN cards : cards[i]["title"] = "Rank " \o ToString(i)

\* C5 witness: a view sorted by Orders whose first row had the last baseline
\* Rank of at least three.
C5_Witness ==
    /\ status = "ok"
    /\ sort_option = "Orders"
    /\ num_teams >= 3
    /\ df_full[1]["Rank"] = num_teams
    /\ df_sorted[1]["Rank"] = 1

\* C6: a view is built only from a table of at least one row with
\* 1 <= floor <= topN <= rowCount, the floor being 1 below three rows and 3 from
\* three rows on; a table of zero rows halts the pass with nothing built.
C6_TopNInRange ==
    /\ status = "ok" =>
          /\ num_teams = Len(df)
          /\ num_teams >= 1
          /\ 1 <= min_n /\ min_n <= show_top_n /\ show_top_n <= num_teams
          /\ num_teams < 3 => min_n = 1
          /\ num_teams >= 3 => min_n = 3
    /\ (raw_after # {} /\ Raw.columns = ValidColumns /\ Raw.rows = <<>>) => status = "no_teams"
    /\ status # "ok" => (df_full = <<>> /\ df_sorted = <<>> /\ cards = <<>>)

\* C6 witness: a three-row table, where floor and ceiling of the slider meet.
C6_Witness ==
    /\ status = "ok"
    /\ num_teams = 3
    /\ min_n = 3
    /\ show_top_n = 3

\* C7: on a raw table with every required column, preprocess_scores keeps
\* every row once with its Team and Badges, keeps the value of every cell it
\* can read as a number, makes every other numeric cell missing, does not halt,
\* and leaves the raw table as it was.
C7_CoercionKeepsRows ==
    (raw_after # {} /\ ValidColumns \subseteq Raw.columns) =>
        /\ status \in {"ok", "no_teams"}
        /\ raw_after = IF using_uploaded THEN uploaded_file ELSE file_seen
        /\ Len(df) = Len(Raw.rows)
        /\ \A k \in DOMAIN Raw.rows :
              /\ Cardinality({i \in DOMAIN df : df[i]["Team"] = Raw.rows[k]["Team"]}) = 1
              /\ \A i \in DOMAIN df : df[i]["Team"] = Raw.rows[k]["Team"] =>
                    /\ df[i]["Badges"] = Raw.rows[k]["Badges"]
                    /\ \A c \in Range(NumericColumns) :
                          IF Coercible(Raw.rows[k][c])
                          THEN ~isna(df[i][c]) /\ df[i][c].v = Raw.rows[k][c].v
                          ELSE isna(df[i][c])

\* C7 witness: a table with text in a Reputation cell and in an Orders cell,
\* and a numeral text in another Reputation cell, was normalized.
C7_Witness ==
    /\ raw_after # {}
    /\ status = "ok"
    /\ \E i, j, k \in DOMAIN Raw.rows :
          /\ Raw.rows[i]["Reputation"].t = "text"
          /\ Raw.rows[j]["Orders"].t = "text"
          /\ Raw.rows[k]["Reputation"].t = "numstr"

\* C8: on every spotlight card each of the four numeric fields shows the dash
\* exactly when the row's value is missing.
C8_PlaceholderForMissing ==
    status = "ok" =>
        \A i \in DOMAIN cards : \A c \in Range(NumericColumns) :
            isna(df_sorted[i][c]) <=> cards[i][c] = "-"

\* C9: a refresh empties the memo, and the first pass on the default source
\* after it shows what the file holds at that pass.
C9_RefreshRereads ==
    /\ refresh_state = "cleared" => cache = {}
    /\ refresh_state = "first" => (~using_uploaded /\ DerivedFrom(file_seen))

\* C9 witness: a refresh on the default source, clicked while the memo held a
\* table loaded from other content than the file, rendered the leaderboard.
C9_Witness ==
    /\ event = "refresh"
    /\ refresh_state = "first"
    /\ was_stale
    /\ status = "ok"

\* C10 as claimed: every pass on the default source shows what the file holds
\* at that pass, with or without a refresh before it.
C10_KeyedByContent ==
    (event \in {"render", "remove_upload", "refresh"} /\ ~using_uploaded) =>
        DerivedFrom(file_seen)

\* C10 amended: the memo is keyed by the call alone.  A pass on the default
\* source that finds a memo (and is no refresh) shows the memoized table and
\* leaves the memo as it is, whatever the file holds; a pass that finds none
\* shows what the file holds at that pass.
C10_KeyedByCallOnly ==
    [][(event' \in {"render", "remove_upload"} /\ ~using_uploaded') =>
          IF cache # {}
          THEN /\ cache' = cache
               /\ status' \in {"ok", "no_teams"}
               /\ df' = The(cache)
          ELSE DerivedFrom(file)']_vars

\* C10 witness: a pass on the default source, not a refresh, rendered the
\* leaderboard from a memo loaded from other content than the file then held.
C10_Witness ==
    /\ event = "render"
    /\ ~using_uploaded
    /\ was_stale
    /\ status = "ok"
    /\ file_seen # {}
    /\ ~DerivedFrom(file_seen)

====
